---- MODULE Spec2Model ----
(***************************************************************************)
(* The block and cat commands of go-ipfs (core/commands/block.go and        *)
(* core/commands/cat.go) as one state machine: one request, its Run         *)
(* handler, the goroutines the handler starts, the PostRun function of the  *)
(* request's encoding, and the caller that consumes the response.           *)
(*                                                                          *)
(* Processes (pc, val are indexed by them):                                 *)
(*   run     the Run handler of the command                                 *)
(*   pipe    the goroutine behind util.RmBlocks (the removal pipeline)      *)
(*   rgo     the goroutine Run starts (block rm: forwarding loop;           *)
(*           cat: Emit then Close)                                          *)
(*   caller  the thread that calls PostRun and then consumes the response   *)
(*   pgo     the goroutine block rm's text PostRun starts                   *)
(*                                                                          *)
(* A response pair (emitter re, response res) is an unbuffered channel:     *)
(* Emit blocks until a Next takes the record.  Pair 1 is the one the Run    *)
(* handler writes to; pair 2 is the one a PostRun creates.                  *)
(***************************************************************************)
EXTENDS Integers, Sequences, FiniteSets, TLC

(* ------------------------------ bounds --------------------------------- *)

\* most positional arguments of one request
MaxArgs == 2

\* how many distinct byte payloads (hence stored blocks) exist
NumBlocks == 2

(* --------------------------- program constants ------------------------- *)

progressBarMinSize == 1024 * 1024 * 8

(* ------------------------ byte payloads and CIDs ----------------------- *)

DataNames == <<"d1", "d2", "d3", "d4">>

Data == {DataNames[i] : i \in 1..NumBlocks}

\* len(data): payload "d<i>" is i+2 bytes long
DataLen(d) == 2 + (CHOOSE i \in 1..Len(DataNames) : DataNames[i] = d)

Codecs == {"dag-pb", "raw", "dag-cbor"}

\* mh.Names restricted to two functions, with their natural digest length
MhNames == {"sha2-256", "sha2-512"}

MhNatural(t) == IF t = "sha2-256" THEN 32 ELSE 64

\* decimal rendering of the numbers that appear inside an identifier string
LenTok(n) ==
  CASE n = 20 -> "20"
    [] n = 32 -> "32"
    [] n = 64 -> "64"
    [] OTHER -> "?"

TokLen(t) ==
  CASE t = "20" -> 20
    [] t = "32" -> 32
    [] t = "64" -> 64
    [] OTHER -> -1

VerTok(v) == IF v = 0 THEN "v0" ELSE "v1"

MkCid(version, codec, mhtype, mhlen, digest) ==
  [version |-> version, codec |-> codec, mhtype |-> mhtype,
   mhlen |-> mhlen, digest |-> digest]

\* the identifier `ipfs block put` gives payload d by default (format v0)
V0Cid(d) == MkCid(0, "dag-pb", "sha2-256", 32, d)

\* Cid.String(): a string is modelled as a sequence of tokens; <<>> is ""
CidString(c) == <<VerTok(c.version), c.codec, c.mhtype, LenTok(c.mhlen), c.digest>>

\* whether cid.Decode accepts the string
DecodeOk(s) ==
  /\ Len(s) = 5
  /\ s[1] \in {"v0", "v1"}
  /\ s[2] \in Codecs
  /\ s[3] \in MhNames
  /\ TokLen(s[4]) > 0
  /\ s[5] \in Data
  /\ (s[1] = "v0" => s[2] = "dag-pb" /\ s[3] = "sha2-256" /\ s[4] = "32")

\* cid.Decode on a string it accepts
Decode(s) == MkCid(IF s[1] = "v0" THEN 0 ELSE 1, s[2], s[3], TokLen(s[4]), s[5])

Malformed == <<"zz">>

EmptyKey == <<>>

\* the identifier strings a request may carry
KeyStrings == {CidString(V0Cid(d)) : d \in Data} \cup {Malformed}

Block(c, d) == [cid |-> c, data |-> d]

(* ------------------------------ sequences ------------------------------ *)

\* all sequences over S of length 1..n
SeqsUpTo(S, n) == UNION {[1..k -> S] : k \in 1..n}

Range(s) == {s[i] : i \in 1..Len(s)}

IsPrefix(s, t) == Len(s) <= Len(t) /\ \A i \in 1..Len(s) : s[i] = t[i]

RECURSIVE SumSizes(_)
SumSizes(s) == IF s = <<>> THEN 0 ELSE s[1].size + SumSizes(Tail(s))

(* -------------------------------- state -------------------------------- *)

VARIABLES
  req,        \* the request: command, arguments, options, encoding, node
  cancelled,  \* whether req.Context() has been cancelled
  blocks,     \* the block store: a set of Block records
  blocks0,    \* the block store as the request found it (never changes)
  pinned,     \* the pinning service: the set of pinned identifiers
  pc,         \* where each process is
  val,        \* the record each process holds (v in the source)
  resp,       \* the two response pairs
  rm,         \* the removal pipeline: its input, options, progress, channel
  storeLog,   \* every store/pin operation issued, in order
  text,       \* block rm's text PostRun: outChan and the line renderer
  out,        \* what the caller got: the records pulled and the bytes read
  bar         \* cat's progress bar

vars == <<req, cancelled, blocks, blocks0, pinned, pc, val, resp, rm, storeLog, text, out, bar>>

Procs == {"run", "pipe", "rgo", "caller", "pgo"}

None == [kind |-> "none"]

NoErr == ""

\* `broken`: the pair's transport has failed (IOFailure, spec 7)
NewPair == [created |-> FALSE, closed |-> FALSE, broken |-> FALSE, length |-> 0,
            err |-> NoErr, setErrors |-> 0, emitted |-> <<>>]

Commands == {"cat", "stat", "get", "put", "rm"}

Encodings == {"CLI", "Text"}

(* ----------------------------- the requests ---------------------------- *)

\* the unixfs files a cat path may name: declared size in bytes
Paths == {"/ipfs/a", "/ipfs/b", "/ipfs/c", "/ipfs/missing"}

Resolves(p) == p # "/ipfs/missing"

FileSize(p) ==
  CASE p = "/ipfs/a" -> 1
    [] p = "/ipfs/b" -> progressBarMinSize - 1
    [] p = "/ipfs/c" -> progressBarMinSize
    [] OTHER -> 0

Formats == {"v0", "raw", "cbor", "protobuf", "bogus"}

MhTypes == MhNames \cup {"nosuchhash"}

MhLens == {-1, 20, 99}

BaseReq == [cmd |-> "rm", args |-> <<>>, force |-> FALSE, quiet |-> FALSE,
            format |-> "v0", mhtype |-> "sha2-256", mhlen |-> -1, data |-> "d1",
            enc |-> "CLI", nodeOk |-> TRUE]

RmReqs ==
  {[BaseReq EXCEPT !.cmd = "rm", !.args = a, !.force = f, !.quiet = q,
                   !.enc = e, !.nodeOk = n] :
     a \in SeqsUpTo(KeyStrings, MaxArgs), f \in BOOLEAN, q \in BOOLEAN,
     e \in Encodings, n \in BOOLEAN}

GetReqs ==
  {[BaseReq EXCEPT !.cmd = c, !.args = <<k>>, !.nodeOk = n] :
     c \in {"stat", "get"}, k \in KeyStrings \cup {EmptyKey}, n \in BOOLEAN}

PutReqs ==
  {[BaseReq EXCEPT !.cmd = "put", !.data = d, !.format = f, !.mhtype = t,
                   !.mhlen = l, !.nodeOk = n] :
     d \in Data, f \in Formats, t \in MhTypes, l \in MhLens, n \in BOOLEAN}

CatReqs ==
  {[BaseReq EXCEPT !.cmd = "cat", !.args = a, !.enc = e, !.nodeOk = n] :
     a \in SeqsUpTo(Paths, MaxArgs), e \in Encodings, n \in BOOLEAN}

Requests == RmReqs \cup GetReqs \cup PutReqs \cup CatReqs

StoredAtStart == {Block(V0Cid(d), d) : d \in Data}

Init ==
  /\ req \in Requests
  /\ cancelled = FALSE
  /\ blocks \in (IF req.cmd = "cat" THEN {{}} ELSE SUBSET StoredAtStart)
  /\ blocks0 = blocks
  /\ pinned \in (IF req.cmd = "rm" THEN SUBSET {b.cid : b \in blocks} ELSE {{}})
  /\ pc = [p \in Procs |-> IF p \in {"run", "caller"} THEN "start" ELSE "idle"]
  /\ val = [p \in Procs |-> None]
  /\ resp = [r \in 1..2 |-> IF r = 1 THEN [NewPair EXCEPT !.created = TRUE] ELSE NewPair]
  /\ rm = [cids |-> <<>>, opts |-> [Quiet |-> FALSE, Force |-> FALSE],
           done |-> {}, cur |-> 0, sent |-> <<>>, closed |-> FALSE]
  /\ storeLog = <<>>
  /\ text = [closed |-> FALSE, someFailed |-> FALSE, rendered |-> <<>>,
             sout |-> <<>>, serr |-> <<>>]
  /\ out = [received |-> <<>>, bytes |-> <<>>]
  /\ bar = [started |-> FALSE, total |-> 0]

(* --------------------------- response pairs ---------------------------- *)

\* ResponseEmitter.SetError on pair r
SetError(rs, r, msg) == [rs EXCEPT ![r].err = msg, ![r].setErrors = @ + 1]

\* the process blocked in Emit on pair r, if any
Producer(r) ==
  IF r = 1
  THEN IF pc["run"] = "emit" THEN "run"
       ELSE IF pc["rgo"] = "emit" THEN "rgo" ELSE "none"
  ELSE IF pc["caller"] = "emit" THEN "caller" ELSE "none"

\* AfterEmit with the forwarding loop of block rm left after its first Emit
AfterEmit_stop(q) ==
  CASE q = "run" -> "done"
    [] q = "rgo" -> IF req.cmd = "rm" THEN "done" ELSE "close"
    [] OTHER -> "consume"

\* where process q goes once its Emit returns
AfterEmit(q) ==
  CASE q = "run" -> "done"
    [] q = "rgo" -> IF req.cmd = "rm" THEN "recv" ELSE "close"
    [] OTHER -> "consume"

\* Response.Next on pair r by process p, yielding a record: the blocked
\* producer's Emit and p's Next complete together (unbuffered channel);
\* p keeps `kept` (the record, or what p makes of it) and goes to `after`
Take(r, p, kept, after) ==
  LET q == Producer(r) IN
  /\ q # "none" /\ ~resp[r].broken
  /\ val' = [val EXCEPT ![p] = kept, ![q] = None]
  /\ pc' = [pc EXCEPT ![p] = after, ![q] = AfterEmit(q)]
  /\ resp' = [resp EXCEPT ![r].emitted = Append(@, val[q])]

\* the record offered on pair r by its blocked producer
Offered(r) == IF Producer(r) = "none" THEN None ELSE val[Producer(r)]

\* which encodings of which commands have a PostRun function
HasPostRun(c, e) == (c = "rm" /\ e = "Text") \/ (c = "cat" /\ e = "CLI")

\* the response the caller consumes: res_ if PostRun built one, else res
OutRes == IF resp[2].created THEN 2 ELSE 1

(* ------------------------------ block rm ------------------------------- *)

Outcome(c, e) == [kind |-> "outcome", Hash |-> CidString(c), Error |-> e]

\* RmOpts with the two flags exchanged
RmOpts_swapped(r) == [Quiet |-> r.force, Force |-> r.quiet]

\* RmOpts with the force flag not passed on
RmOpts_noForce(r) == [Quiet |-> r.quiet, Force |-> FALSE]

\* util.RmBlocksOpts as the handler fills it in
RmOpts(r) == [Quiet |-> r.quiet, Force |-> r.force]

\* blockRmCmd.Run up to the start of the forwarding goroutine
RunBlockRm ==
  /\ pc["run"] = "start" /\ req.cmd = "rm"
  /\ IF ~req.nodeOk
     THEN /\ resp' = SetError(resp, 1, "no node")
          /\ pc' = [pc EXCEPT !["run"] = "done"]
          /\ UNCHANGED rm
     ELSE IF \E i \in 1..Len(req.args) : ~DecodeOk(req.args[i])
     THEN /\ resp' = SetError(resp, 1, "invalid content id")
          /\ pc' = [pc EXCEPT !["run"] = "done"]
          /\ UNCHANGED rm
     ELSE /\ rm' = [rm EXCEPT !.cids = [i \in 1..Len(req.args) |-> Decode(req.args[i])],
                              !.opts = RmOpts(req)]
          /\ pc' = [pc EXCEPT !["run"] = "done", !["pipe"] = "pick", !["rgo"] = "recv"]
          /\ UNCHANGED resp
  /\ UNCHANGED <<req, blocks0, cancelled, blocks, pinned, val, storeLog, text, out, bar>>

\* removal pipeline: ask the pinner about one identifier not yet handled
PipeLookup(i) ==
  /\ pc["pipe"] = "pick"
  /\ i \in (1..Len(rm.cids)) \ rm.done
  /\ LET c == rm.cids[i] IN
     /\ storeLog' = Append(storeLog, [op |-> "isPinned", cid |-> c])
     /\ rm' = [rm EXCEPT !.cur = i]
     /\ IF c \in pinned /\ ~rm.opts.Force
        THEN /\ val' = [val EXCEPT !["pipe"] = Outcome(c, "pinned")]
             /\ pc' = [pc EXCEPT !["pipe"] = "send"]
        ELSE /\ pc' = [pc EXCEPT !["pipe"] = "delete"]
             /\ UNCHANGED val
  /\ UNCHANGED <<req, blocks0, cancelled, blocks, pinned, resp, text, out, bar>>

\* removal pipeline: delete the identifier from the store
PipeDelete ==
  /\ pc["pipe"] = "delete"
  /\ LET c == rm.cids[rm.cur]
         present == \E b \in blocks : b.cid = c
     IN
     /\ storeLog' = Append(storeLog, [op |-> "delete", cid |-> c])
     /\ blocks' = {b \in blocks : b.cid # c}
     /\ val' = [val EXCEPT !["pipe"] =
                  Outcome(c, IF present \/ rm.opts.Force THEN NoErr ELSE "not found")]
     /\ pc' = [pc EXCEPT !["pipe"] = "send"]
  /\ UNCHANGED <<req, blocks0, cancelled, pinned, resp, rm, text, out, bar>>

\* the forwarding goroutine's `for v := range ch` receives what the
\* pipeline sends; Emit on a closed or broken emitter returns an error at
\* once, the error is set and the loop goes on
FwdRecv ==
  /\ pc["pipe"] = "send" /\ pc["rgo"] = "recv"
  /\ rm' = [rm EXCEPT !.sent = Append(@, val["pipe"]), !.done = @ \cup {rm.cur}, !.cur = 0]
  /\ LET more == rm.done \cup {rm.cur} # 1..Len(rm.cids)
         pipeNext == IF more THEN "pick" ELSE "close"
     IN
     IF resp[1].closed \/ resp[1].broken
     THEN /\ resp' = SetError(resp, 1, "emit failed")
          /\ pc' = [pc EXCEPT !["pipe"] = pipeNext]
          /\ val' = [val EXCEPT !["pipe"] = None]
     ELSE /\ pc' = [pc EXCEPT !["pipe"] = pipeNext, !["rgo"] = "emit"]
          /\ val' = [val EXCEPT !["rgo"] = val["pipe"], !["pipe"] = None]
          /\ UNCHANGED resp
  /\ UNCHANGED <<req, blocks0, cancelled, blocks, pinned, storeLog, text, out, bar>>

\* removal pipeline: every identifier handled, close the channel
PipeClose ==
  /\ pc["pipe"] = "close"
  /\ rm' = [rm EXCEPT !.closed = TRUE]
  /\ pc' = [pc EXCEPT !["pipe"] = "done"]
  /\ UNCHANGED <<req, blocks0, cancelled, blocks, pinned, val, resp, storeLog, text, out, bar>>

\* the forwarding goroutine's range loop ends when ch is closed
FwdExit ==
  /\ pc["rgo"] = "recv" /\ rm.closed
  /\ pc' = [pc EXCEPT !["rgo"] = "done"]
  /\ UNCHANGED <<req, blocks0, cancelled, blocks, pinned, val, resp, rm, storeLog, text, out, bar>>

\* blockRmCmd.PostRun[Text] up to the call of ProcRmOutput
RmPostRunText ==
  /\ pc["caller"] = "start" /\ req.cmd = "rm" /\ req.enc = "Text"
  /\ pc["run"] = "done"
  /\ IF resp[1].err # NoErr
     THEN /\ pc' = [pc EXCEPT !["caller"] = "consume"]
          /\ UNCHANGED resp
     ELSE /\ resp' = [resp EXCEPT ![2].created = TRUE]
          /\ pc' = [pc EXCEPT !["caller"] = "proc", !["pgo"] = "next"]
  /\ UNCHANGED <<req, blocks0, cancelled, blocks, pinned, val, rm, storeLog, text, out, bar>>

\* PgoNext sending on the first record it ever pulled instead of the new one
PgoNext_stale ==
  /\ pc["pgo"] = "next"
  /\ IF resp[1].closed
     THEN /\ text' = [text EXCEPT !.closed = TRUE]
          /\ pc' = [pc EXCEPT !["pgo"] = "done"]
          /\ UNCHANGED <<val, resp>>
     ELSE IF resp[1].broken
     THEN /\ resp' = SetError(resp, 2, "next failed")
          /\ text' = [text EXCEPT !.closed = TRUE]
          /\ pc' = [pc EXCEPT !["pgo"] = "done"]
          /\ UNCHANGED val
     ELSE /\ Take(1, "pgo",
                  IF resp[1].emitted = <<>> THEN Offered(1) ELSE resp[1].emitted[1],
                  "send")
          /\ UNCHANGED text
  /\ UNCHANGED <<req, blocks0, cancelled, blocks, pinned, rm, storeLog, out, bar>>

\* PgoNext returning when the record pulled carries an error
PgoNext_dropError ==
  /\ pc["pgo"] = "next"
  /\ IF resp[1].closed
     THEN /\ text' = [text EXCEPT !.closed = TRUE]
          /\ pc' = [pc EXCEPT !["pgo"] = "done"]
          /\ UNCHANGED <<val, resp>>
     ELSE IF resp[1].broken
     THEN /\ resp' = SetError(resp, 2, "next failed")
          /\ text' = [text EXCEPT !.closed = TRUE]
          /\ pc' = [pc EXCEPT !["pgo"] = "done"]
          /\ UNCHANGED val
     ELSE /\ Take(1, "pgo", Offered(1),
                  IF Offered(1).kind = "outcome" /\ Offered(1).Error # NoErr
                  THEN "done" ELSE "send")
          /\ text' = [text EXCEPT !.closed =
                        Offered(1).kind = "outcome" /\ Offered(1).Error # NoErr]
  /\ UNCHANGED <<req, blocks0, cancelled, blocks, pinned, rm, storeLog, out, bar>>

\* PostRun's goroutine: res.Next(); on io.EOF it returns, on another
\* error it sets the error on re and returns, and returning closes outChan
\* (the deferred close); a record goes on to `outChan <- v`
PgoNext ==
  /\ pc["pgo"] = "next"
  /\ IF resp[1].closed
     THEN /\ text' = [text EXCEPT !.closed = TRUE]
          /\ pc' = [pc EXCEPT !["pgo"] = "done"]
          /\ UNCHANGED <<val, resp>>
     ELSE IF resp[1].broken
     THEN /\ resp' = SetError(resp, 2, "next failed")
          /\ text' = [text EXCEPT !.closed = TRUE]
          /\ pc' = [pc EXCEPT !["pgo"] = "done"]
          /\ UNCHANGED val
     ELSE /\ Take(1, "pgo", Offered(1), "send")
          /\ UNCHANGED text
  /\ UNCHANGED <<req, blocks0, cancelled, blocks, pinned, rm, storeLog, out, bar>>

\* the line renderer's handling of one record
Render(t, v) ==
  [t EXCEPT !.rendered = Append(@, v),
            !.sout = IF v.Error = NoErr THEN Append(@, v.Hash) ELSE @,
            !.serr = IF v.Error # NoErr THEN Append(@, v.Hash) ELSE @,
            !.someFailed = @ \/ v.Error # NoErr]

\* ProcRmOutput with PostRun setting the renderer's error without testing it
ProcRmOutput_always ==
  /\ pc["caller"] = "proc"
  /\ IF text.closed
     THEN /\ resp' = SetError(resp, 2, IF text.someFailed
                                       THEN "some blocks not removed" ELSE NoErr)
          /\ pc' = [pc EXCEPT !["caller"] = "consume"]
          /\ UNCHANGED <<val, text>>
     ELSE /\ pc["pgo"] = "send"
          /\ text' = Render(text, val["pgo"])
          /\ val' = [val EXCEPT !["pgo"] = None]
          /\ pc' = [pc EXCEPT !["pgo"] = "next"]
          /\ UNCHANGED resp
  /\ UNCHANGED <<req, blocks0, cancelled, blocks, pinned, rm, storeLog, out, bar>>

\* ProcRmOutput: receive the record PostRun's goroutine sends on outChan
\* (`outChan <- v`) and render it; once outChan is closed, return, and
\* PostRun sets the error, if any, and returns res_
ProcRmOutput ==
  /\ pc["caller"] = "proc"
  /\ IF text.closed
     THEN /\ resp' = IF text.someFailed
                     THEN SetError(resp, 2, "some blocks not removed")
                     ELSE resp
          /\ pc' = [pc EXCEPT !["caller"] = "consume"]
          /\ UNCHANGED <<val, text>>
     ELSE /\ pc["pgo"] = "send"
          /\ text' = Render(text, val["pgo"])
          /\ val' = [val EXCEPT !["pgo"] = None]
          /\ pc' = [pc EXCEPT !["pgo"] = "next"]
          /\ UNCHANGED resp
  /\ UNCHANGED <<req, blocks0, cancelled, blocks, pinned, rm, storeLog, out, bar>>

(* ----------------------------- the caller ------------------------------ *)

\* the request's context is cancelled
Cancel ==
  /\ ~cancelled
  /\ cancelled' = TRUE
  /\ UNCHANGED <<req, blocks0, blocks, pinned, pc, val, resp, rm, storeLog, text, out, bar>>

\* no PostRun for this command and encoding: the caller consumes res
NoPostRun ==
  /\ pc["caller"] = "start" /\ ~HasPostRun(req.cmd, req.enc)
  /\ pc' = [pc EXCEPT !["caller"] = "consume"]
  /\ UNCHANGED <<req, blocks0, cancelled, blocks, pinned, val, resp, rm, storeLog, text, out, bar>>

\* the caller's next() yields a record
ConsumerNext ==
  /\ pc["caller"] = "consume" /\ ~resp[OutRes].closed
  /\ Producer(OutRes) # "none"
  /\ LET v == Offered(OutRes) IN
     /\ Take(OutRes, "caller", v, IF v.kind = "reader" THEN "read" ELSE "consume")
     /\ out' = [out EXCEPT !.received = Append(@, v)]
  /\ UNCHANGED <<req, blocks0, cancelled, blocks, pinned, rm, storeLog, text, bar>>

\* the caller's next() yields the end-of-stream marker
ConsumerEOF ==
  /\ pc["caller"] = "consume" /\ resp[OutRes].closed
  /\ pc' = [pc EXCEPT !["caller"] = "drained"]
  /\ UNCHANGED <<req, blocks0, cancelled, blocks, pinned, val, resp, rm, storeLog, text, out, bar>>

\* the caller copies the payload reader to its output, one read at a time
ConsumerRead ==
  /\ pc["caller"] = "read"
  /\ IF val["caller"].segs = <<>>
     THEN /\ pc' = [pc EXCEPT !["caller"] = "consume"]
          /\ val' = [val EXCEPT !["caller"] = None]
          /\ UNCHANGED out
     ELSE /\ out' = [out EXCEPT !.bytes = Append(@, Head(val["caller"].segs))]
          /\ val' = [val EXCEPT !["caller"].segs = Tail(@)]
          /\ UNCHANGED pc
  /\ UNCHANGED <<req, blocks0, cancelled, blocks, pinned, resp, rm, storeLog, text, bar>>

(* ---------------------------- I/O failures ----------------------------- *)

\* the transport under the handler's response pair fails: from now on
\* Emit and Next on that pair return an error
IOFailure ==
  /\ ~resp[1].broken
  /\ resp' = [resp EXCEPT ![1].broken = TRUE]
  /\ UNCHANGED <<req, blocks0, cancelled, blocks, pinned, pc, val, rm, storeLog, text, out, bar>>

\* EmitFails with the forwarding goroutine returning on Emit's error
EmitFails_return ==
  /\ resp[1].broken
  /\ \E q \in {"run", "rgo"} :
       /\ pc[q] = "emit"
       /\ pc' = [pc EXCEPT ![q] = IF req.cmd = "rm" THEN "done" ELSE AfterEmit(q)]
       /\ val' = [val EXCEPT ![q] = None]
       /\ resp' = IF req.cmd = "rm" THEN SetError(resp, 1, "emit failed") ELSE resp
  /\ UNCHANGED <<req, blocks0, cancelled, blocks, pinned, rm, storeLog, text, out, bar>>

\* an Emit blocked on the broken pair returns an error: the forwarding
\* goroutine of block rm sets it on the emitter and goes on with its loop,
\* the other handlers ignore Emit's result
EmitFails ==
  /\ resp[1].broken
  /\ \E q \in {"run", "rgo"} :
       /\ pc[q] = "emit"
       /\ pc' = [pc EXCEPT ![q] = AfterEmit(q)]
       /\ val' = [val EXCEPT ![q] = None]
       /\ resp' = IF req.cmd = "rm" THEN SetError(resp, 1, "emit failed") ELSE resp
  /\ UNCHANGED <<req, blocks0, cancelled, blocks, pinned, rm, storeLog, text, out, bar>>

\* the caller's next() on the broken pair returns an error
ConsumerNextFails ==
  /\ pc["caller"] = "consume" /\ resp[OutRes].broken
  /\ pc' = [pc EXCEPT !["caller"] = "failed"]
  /\ UNCHANGED <<req, blocks0, cancelled, blocks, pinned, val, resp, rm, storeLog, text, out, bar>>

(* --------------------------------- cat --------------------------------- *)

Seg(from, size) == [from |-> from, size |-> size]

Reader(segs) == [kind |-> "reader", segs |-> segs, bar |-> FALSE, nil |-> FALSE]

\* CatLoop with `length = size` where the source has `length += size`
RECURSIVE CatLoop_lastSize(_, _, _, _)
CatLoop_lastSize(ctxDone, paths, readers, length) ==
  IF paths = <<>>
  THEN [readers |-> readers, length |-> length, err |-> NoErr]
  ELSE IF ctxDone \/ ~Resolves(Head(paths))
  THEN [readers |-> <<>>, length |-> 0, err |-> "cat failed"]
  ELSE CatLoop_lastSize(ctxDone, Tail(paths),
                        Append(readers, Seg(Head(paths), FileSize(Head(paths)))),
                        FileSize(Head(paths)))

\* the loop of cat(): one reader per path, the declared sizes summed;
\* coreunix.Cat fails on a path that does not resolve or a cancelled context
\* (the sizes here cannot wrap a uint64)
RECURSIVE CatLoop(_, _, _, _)
CatLoop(ctxDone, paths, readers, length) ==
  IF paths = <<>>
  THEN [readers |-> readers, length |-> length, err |-> NoErr]
  ELSE IF ctxDone \/ ~Resolves(Head(paths))
  THEN [readers |-> <<>>, length |-> 0, err |-> "cat failed"]
  ELSE CatLoop(ctxDone, Tail(paths),
               Append(readers, Seg(Head(paths), FileSize(Head(paths)))),
               length + FileSize(Head(paths)))

cat(ctxDone, paths) == CatLoop(ctxDone, paths, <<>>, 0)

\* io.MultiReader(readers...)
MultiReader(readers) == Reader(readers)

\* CatCmd.Run; nodeOk stands for GetNode and SetupOfflineRouting succeeding
RunCat ==
  /\ pc["run"] = "start" /\ req.cmd = "cat"
  /\ LET r == cat(cancelled, req.args) IN
     IF ~req.nodeOk
     THEN /\ resp' = SetError(resp, 1, "no node")
          /\ pc' = [pc EXCEPT !["run"] = "done"]
          /\ UNCHANGED val
     ELSE IF r.err # NoErr
     THEN /\ resp' = SetError(resp, 1, r.err)
          /\ pc' = [pc EXCEPT !["run"] = "done"]
          /\ UNCHANGED val
     ELSE /\ resp' = [resp EXCEPT ![1].length = r.length]
          /\ val' = [val EXCEPT !["rgo"] = MultiReader(r.readers)]
          /\ pc' = [pc EXCEPT !["run"] = "done", !["rgo"] = "emit"]
  /\ UNCHANGED <<req, blocks0, cancelled, blocks, pinned, rm, storeLog, text, out, bar>>

\* the goroutine of CatCmd.Run, after its Emit: re.Close()
CatClose ==
  /\ pc["rgo"] = "close"
  /\ resp' = [resp EXCEPT ![1].closed = TRUE]
  /\ pc' = [pc EXCEPT !["rgo"] = "done"]
  /\ UNCHANGED <<req, blocks0, cancelled, blocks, pinned, val, rm, storeLog, text, out, bar>>

\* the test CatCmd.PostRun[CLI] makes before returning res unchanged
BelowProgressMin(length) == length < progressBarMinSize

\* CatCmd.PostRun[CLI]: pass res through, or build the new pair; the
\* header (length) is read once the handler has returned
CatPostRunCLI ==
  /\ pc["caller"] = "start" /\ req.cmd = "cat" /\ req.enc = "CLI"
  /\ pc["run"] = "done"
  /\ IF BelowProgressMin(resp[1].length)
     THEN /\ pc' = [pc EXCEPT !["caller"] = "consume"]
          /\ UNCHANGED resp
     ELSE /\ resp' = [resp EXCEPT ![2].created = TRUE]
          /\ pc' = [pc EXCEPT !["caller"] = "next"]
  /\ UNCHANGED <<req, blocks0, cancelled, blocks, pinned, val, rm, storeLog, text, out, bar>>

\* progressBarForReader: the reader wrapped, the bar sized to total
WithBar(v) ==
  IF v.kind = "reader"
  THEN [v EXCEPT !.bar = TRUE]
  ELSE [kind |-> "reader", segs |-> <<>>, bar |-> TRUE, nil |-> TRUE]

\* CatPostRunNext with the bar sized and started only after the Emit
CatPostRunNext_lateStart ==
  /\ pc["caller"] = "next"
  /\ UNCHANGED bar
  /\ IF resp[1].closed \/ resp[1].broken
     THEN /\ val' = [val EXCEPT !["caller"] = WithBar(None)]
          /\ pc' = [pc EXCEPT !["caller"] = "emit"]
          /\ UNCHANGED resp
     ELSE Take(1, "caller", WithBar(Offered(1)), "emit")
  /\ UNCHANGED <<req, blocks0, cancelled, blocks, pinned, rm, storeLog, text, out>>

\* CatCmd.PostRun[CLI]: res.Next() (its error ignored), the bar made and
\* started, then re.Emit(reader) on the new pair, which blocks
CatPostRunNext ==
  /\ pc["caller"] = "next"
  /\ bar' = [started |-> TRUE, total |-> resp[1].length]
  /\ IF resp[1].closed \/ resp[1].broken
     THEN /\ val' = [val EXCEPT !["caller"] = WithBar(None)]
          /\ pc' = [pc EXCEPT !["caller"] = "emit"]
          /\ UNCHANGED resp
     ELSE Take(1, "caller", WithBar(Offered(1)), "emit")
  /\ UNCHANGED <<req, blocks0, cancelled, blocks, pinned, rm, storeLog, text, out>>

(* ----------------------- block stat, get and put ----------------------- *)

BlockStat(key, size) == [kind |-> "stat", Key |-> key, Size |-> size]

\* getBlockForKey with the length test made last, after the store access
getBlockForKey_lateCheck(skey) ==
  IF ~req.nodeOk THEN [err |-> "no node", block |-> None, store |-> FALSE]
  ELSE IF ~DecodeOk(skey) THEN [err |-> "decode failed", block |-> None, store |-> FALSE]
  ELSE IF cancelled THEN [err |-> "get failed", block |-> None, store |-> FALSE]
  ELSE IF ~\E b \in blocks : b.cid = Decode(skey)
  THEN [err |-> "get failed", block |-> None, store |-> TRUE]
  ELSE IF Len(skey) = 0
  THEN [err |-> "zero length cid invalid", block |-> None, store |-> TRUE]
  ELSE [err |-> NoErr, block |-> CHOOSE b \in blocks : b.cid = Decode(skey),
        store |-> TRUE]

\* getBlockForKey: the checks in the order the source makes them; `store`
\* tells whether the blockstore was asked (GetBlock returns at once on a
\* cancelled context)
getBlockForKey(skey) ==
  IF Len(skey) = 0
  THEN [err |-> "zero length cid invalid", block |-> None, store |-> FALSE]
  ELSE IF ~req.nodeOk THEN [err |-> "no node", block |-> None, store |-> FALSE]
  ELSE IF ~DecodeOk(skey) THEN [err |-> "decode failed", block |-> None, store |-> FALSE]
  ELSE IF cancelled THEN [err |-> "get failed", block |-> None, store |-> FALSE]
  ELSE IF ~\E b \in blocks : b.cid = Decode(skey)
  THEN [err |-> "get failed", block |-> None, store |-> TRUE]
  ELSE [err |-> NoErr, block |-> CHOOSE b \in blocks : b.cid = Decode(skey),
        store |-> TRUE]

\* the store log after getBlockForKey
GetLogged(skey, g) ==
  IF g.store THEN Append(storeLog, [op |-> "get", cid |-> Decode(skey)]) ELSE storeLog

\* blockStatCmd.Run up to its Emit
RunBlockStat ==
  /\ pc["run"] = "start" /\ req.cmd = "stat"
  /\ LET g == getBlockForKey(req.args[1]) IN
     /\ storeLog' = GetLogged(req.args[1], g)
     /\ IF g.err # NoErr
        THEN /\ resp' = SetError(resp, 1, g.err)
             /\ pc' = [pc EXCEPT !["run"] = "done"]
             /\ UNCHANGED val
        ELSE /\ val' = [val EXCEPT !["run"] =
                          BlockStat(CidString(g.block.cid), DataLen(g.block.data))]
             /\ pc' = [pc EXCEPT !["run"] = "emit"]
             /\ UNCHANGED resp
  /\ UNCHANGED <<req, blocks0, cancelled, blocks, pinned, rm, text, out, bar>>

\* blockGetCmd.Run up to its Emit
RunBlockGet ==
  /\ pc["run"] = "start" /\ req.cmd = "get"
  /\ LET g == getBlockForKey(req.args[1]) IN
     /\ storeLog' = GetLogged(req.args[1], g)
     /\ IF g.err # NoErr
        THEN /\ resp' = SetError(resp, 1, g.err)
             /\ pc' = [pc EXCEPT !["run"] = "done"]
             /\ UNCHANGED val
        ELSE /\ val' = [val EXCEPT !["run"] =
                          Reader(<<Seg(g.block.data, DataLen(g.block.data))>>)]
             /\ pc' = [pc EXCEPT !["run"] = "emit"]
             /\ UNCHANGED resp
  /\ UNCHANGED <<req, blocks0, cancelled, blocks, pinned, rm, text, out, bar>>

\* FormatPrefix with an unknown format name taken for "raw"
FormatPrefix_default(format) ==
  CASE format = "cbor" -> [ok |-> TRUE, Version |-> 1, Codec |-> "dag-cbor"]
    [] format = "protobuf" -> [ok |-> TRUE, Version |-> 1, Codec |-> "dag-pb"]
    [] format = "v0" -> [ok |-> TRUE, Version |-> 0, Codec |-> "dag-pb"]
    [] OTHER -> [ok |-> TRUE, Version |-> 1, Codec |-> "raw"]

\* the prefix blockPutCmd.Run builds from the format option
FormatPrefix(format) ==
  CASE format = "cbor" -> [ok |-> TRUE, Version |-> 1, Codec |-> "dag-cbor"]
    [] format = "protobuf" -> [ok |-> TRUE, Version |-> 1, Codec |-> "dag-pb"]
    [] format = "raw" -> [ok |-> TRUE, Version |-> 1, Codec |-> "raw"]
    [] format = "v0" -> [ok |-> TRUE, Version |-> 0, Codec |-> "dag-pb"]
    [] OTHER -> [ok |-> FALSE, Version |-> 1, Codec |-> "none"]

\* the digest length pref.Sum uses: -1 stands for the natural length
SumLength(mhtype, mhlen) == IF mhlen = -1 THEN MhNatural(mhtype) ELSE mhlen

\* blockPutCmd.Run from the options to the identifier: error or cid
PutCid(r) ==
  LET f == FormatPrefix(r.format) IN
  IF ~f.ok THEN [err |-> "unrecognized format", cid |-> None]
  ELSE IF r.mhtype \notin MhNames
  THEN [err |-> "unrecognized multihash function", cid |-> None]
  ELSE IF SumLength(r.mhtype, r.mhlen) \notin 1..MhNatural(r.mhtype)
  THEN [err |-> "invalid hash length", cid |-> None]
  ELSE [err |-> NoErr,
        cid |-> MkCid(f.Version, f.Codec, r.mhtype, SumLength(r.mhtype, r.mhlen), r.data)]

\* blockPutCmd.Run up to its Emit
RunBlockPut ==
  /\ pc["run"] = "start" /\ req.cmd = "put"
  /\ LET p == PutCid(req) IN
     IF ~req.nodeOk
     THEN /\ resp' = SetError(resp, 1, "no node")
          /\ pc' = [pc EXCEPT !["run"] = "done"]
          /\ UNCHANGED <<val, blocks, storeLog>>
     ELSE IF p.err # NoErr
     THEN /\ resp' = SetError(resp, 1, p.err)
          /\ pc' = [pc EXCEPT !["run"] = "done"]
          /\ UNCHANGED <<val, blocks, storeLog>>
     ELSE /\ blocks' = blocks \cup {Block(p.cid, req.data)}
          /\ storeLog' = Append(storeLog, [op |-> "put", cid |-> p.cid])
          /\ val' = [val EXCEPT !["run"] = BlockStat(CidString(p.cid), DataLen(req.data))]
          /\ pc' = [pc EXCEPT !["run"] = "emit"]
          /\ UNCHANGED resp
  /\ UNCHANGED <<req, blocks0, cancelled, pinned, rm, text, out, bar>>

(* ------------------------------ the system ----------------------------- *)

\* every step but the cancellation of the context
Progress ==
  \/ RunBlockRm
  \/ \E i \in 1..Len(rm.cids) : PipeLookup(i)
  \/ PipeDelete
  \/ FwdRecv
  \/ PipeClose
  \/ FwdExit
  \/ RmPostRunText
  \/ PgoNext
  \/ ProcRmOutput
  \/ RunCat
  \/ CatClose
  \/ CatPostRunCLI
  \/ CatPostRunNext
  \/ RunBlockStat
  \/ RunBlockGet
  \/ RunBlockPut
  \/ NoPostRun
  \/ ConsumerNext
  \/ ConsumerEOF
  \/ ConsumerRead

Next == Progress \/ Cancel

Spec == Init /\ [][Next]_vars

\* the runs in which the transport may fail (and the context is not
\* cancelled)
NextIO == Progress \/ IOFailure \/ EmitFails \/ ConsumerNextFails

\* the quiet option only travels to util.RmBlocks: one value of it is enough
InitIO == Init /\ ~req.quiet

SpecIO == InitIO /\ [][NextIO]_vars

(* ------------------------- vocabulary of the claims -------------------- *)

\* no process can take a step (the context may still be cancelled)
Settled == ~ENABLED Progress

\* the same where the transport may fail
SettledIO == ~ENABLED (Progress \/ EmitFails \/ ConsumerNextFails)

\* block rm got as far as starting the removal pipeline
RmStarted == req.cmd = "rm" /\ pc["pipe"] # "idle"

\* the identifier the i-th argument of the request names
ArgCid(i) == Decode(req.args[i])

StoredCids(bs) == {b.cid : b \in bs}

\* every identifier of the request was in the store when the request came
AllStored == \A i \in 1..Len(req.args) : ArgCid(i) \in StoredCids(blocks0)

\* the positions of the request whose identifier is pinned
PinnedArgs == {i \in 1..Len(req.args) : ArgCid(i) \in pinned}

\* the removal stream has ended: channel closed, forwarding loop finished
RmStreamEnded == rm.closed /\ pc["rgo"] = "done"

CountIn(s, P(_)) == Cardinality({i \in 1..Len(s) : P(s[i])})

IsSkippedPinned(v) == v.Error = "pinned"

IsFailure(v) == v.Error # NoErr

\* C1 (bulk isolation): in a block rm over stored identifiers with
\* force=false and no cancellation, no delete is ever issued for a pinned
\* identifier and the pinned blocks stay in the store; when the stream has
\* ended it carried exactly N outcomes, exactly K of them Skipped(pinned),
\* and the unpinned blocks are gone.
C1_BulkIsolation ==
  (RmStarted /\ AllStored /\ ~req.force /\ ~cancelled) =>
    /\ \A i \in 1..Len(storeLog) :
         storeLog[i].op = "delete" => storeLog[i].cid \notin pinned
    /\ \A i \in PinnedArgs : ArgCid(i) \in StoredCids(blocks)
    /\ Len(resp[1].emitted) <= Len(req.args)
    /\ RmStreamEnded =>
         /\ Len(resp[1].emitted) = Len(req.args)
         /\ CountIn(resp[1].emitted, IsSkippedPinned) = Cardinality(PinnedArgs)
         /\ \A i \in 1..Len(req.args) :
              ArgCid(i) \in StoredCids(blocks) <=> i \in PinnedArgs

C1_Witness ==
  /\ RmStarted /\ AllStored /\ ~req.force /\ ~cancelled /\ RmStreamEnded
  /\ Len(req.args) = 2 /\ Cardinality(PinnedArgs) = 1

Outcomes(s, h) == Cardinality({i \in 1..Len(s) : s[i].Hash = h})

Occurrences(h) == Cardinality({i \in 1..Len(req.args) : req.args[i] = h})

Lookups(h) ==
  Cardinality({i \in 1..Len(storeLog) :
                 storeLog[i].op = "isPinned" /\ CidString(storeLog[i].cid) = h})

\* C3 (per-item isolation): in a block rm that is not cancelled an
\* identifier never yields more outcomes than it has occurrences in the
\* request, and once nothing more can happen every identifier has been
\* attempted and has yielded exactly one outcome per occurrence, whatever
\* the other identifiers' outcomes were.
C3_PerItemIsolation ==
  (RmStarted /\ ~cancelled) =>
    \A h \in Range(req.args) :
      /\ Outcomes(resp[1].emitted, h) <= Occurrences(h)
      /\ Settled =>
           /\ Outcomes(resp[1].emitted, h) = Occurrences(h)
           /\ Lookups(h) = Occurrences(h)

C3_Witness ==
  /\ RmStarted /\ ~cancelled /\ Settled
  /\ Len(resp[1].emitted) = 2
  /\ IsFailure(resp[1].emitted[1])
  /\ ~IsFailure(resp[1].emitted[2])

\* the response handed to the caller carries an error
MarkedFailed == resp[OutRes].err # NoErr

\* C4 (aggregate failure), as claimed: for a block rm rendered in text
\* mode the failure mark is set only after every outcome has been rendered
\* and only if one of them failed, and once nothing more can happen the
\* response is marked failed if and only if some identifier failed.
C4_AggregateFailure ==
  (RmStarted /\ req.enc = "Text") =>
    /\ resp[2].err # NoErr =>
         /\ Len(text.rendered) = Len(req.args)
         /\ \E i \in 1..Len(text.rendered) : IsFailure(text.rendered[i])
    /\ Settled =>
         (MarkedFailed <=> \E i \in 1..Len(rm.sent) : IsFailure(rm.sent[i]))

\* C5 (cancellation), as claimed: once the request's context is cancelled
\* no further isPinned lookup or delete is issued.
C5_CancelStopsStoreOps == [][cancelled => storeLog' = storeLog]_vars

\* C6 (stream order): what a consumer has received is at every moment a
\* prefix of what the producer emitted; for block rm the line renderer's
\* input is a prefix of what crossed the response pair, which is a prefix
\* of what the removal pipeline sent, and so is what a caller pulls.
C6_StreamOrder ==
  /\ IsPrefix(out.received, resp[OutRes].emitted)
  /\ req.cmd = "rm" =>
       /\ IsPrefix(resp[1].emitted, rm.sent)
       /\ IsPrefix(text.rendered, resp[1].emitted)
       /\ IsPrefix(out.received, rm.sent)

C6_Witness ==
  /\ req.cmd = "rm" /\ req.enc = "Text"
  /\ Len(text.rendered) = 2
  /\ text.rendered[1] # text.rendered[2]

\* C7 (stream termination), as claimed: once nothing more can happen, a
\* response stream its handler pushed a record to has been closed and the
\* caller has seen the end-of-stream marker of the response it consumes.
C7_StreamTermination ==
  (Settled /\ resp[1].emitted # <<>>) =>
    /\ resp[1].closed
    /\ OutRes = 1 => pc["caller"] = "drained"

\* C8 (handler/producer decoupling), as claimed: the Run handler is never
\* blocked in Emit while the caller has not yet called next().
C8_HandlerNeverBlocksInEmit == ~(pc["run"] = "emit" /\ pc["caller"] = "start")

\* C9 (progress activation boundary), as claimed: in CLI mode cat's
\* PostRun builds the progress-annotated response if and only if the
\* declared length is strictly greater than 8 MiB.
C9_ProgressBoundary ==
  (req.cmd = "cat" /\ req.enc = "CLI" /\ pc["caller"] # "start") =>
    (resp[2].created <=> resp[1].length > progressBarMinSize)

\* the readers cat() is to return for the request's paths, in request order
ExpectedSegs == [i \in 1..Len(req.args) |-> Seg(req.args[i], FileSize(req.args[i]))]

\* C10 (payload concatenation): when cat's handler has run without error
\* (as it does when the node is available, every path resolves and the
\* context is live), the declared length is s1+...+sn, the one payload is
\* the paths' bytes in request order, what the caller has read is a prefix
\* of them, and at end of stream it has read exactly s1+...+sn bytes.
C10_PayloadConcatenation ==
  (req.cmd = "cat" /\ pc["run"] = "done") =>
    /\ (req.nodeOk /\ (\A i \in 1..Len(req.args) : Resolves(req.args[i])) /\ ~cancelled)
         => resp[1].err = NoErr
    /\ resp[1].err = NoErr =>
         /\ resp[1].length = SumSizes(ExpectedSegs)
         /\ pc["rgo"] = "emit" => val["rgo"] = MultiReader(ExpectedSegs)
         /\ resp[1].emitted \in {<<>>, <<MultiReader(ExpectedSegs)>>}
         /\ IsPrefix(out.bytes, ExpectedSegs)
         /\ pc["caller"] = "drained" =>
              /\ out.bytes = ExpectedSegs
              /\ SumSizes(out.bytes) = resp[1].length

C10_Witness ==
  /\ req.cmd = "cat" /\ pc["caller"] = "drained"
  /\ Len(req.args) = 2 /\ req.args[1] # req.args[2]
  /\ out.bytes = ExpectedSegs

\* the request carries an input error: block put with an unknown format
\* or hash-function name or an impossible hash length, block rm with a
\* malformed identifier among its arguments
HasInputError ==
  \/ /\ req.cmd = "put"
     /\ \/ req.format \notin {"v0", "raw", "cbor", "protobuf"}
        \/ req.mhtype \notin MhNames
        \/ req.mhlen # -1 /\ req.mhlen \notin 1..MhNatural(req.mhtype)
  \/ /\ req.cmd = "rm"
     /\ \E i \in 1..Len(req.args) : req.args[i] = Malformed

\* C11 (input errors stop the operation before it starts): for a request
\* with an input error no record is ever emitted or received, no store or
\* pin operation is issued, the removal pipeline is never started, the
\* store keeps its blocks, and once the handler has returned the error is
\* set on the response.
C11_InputErrorStops ==
  HasInputError =>
    /\ blocks = blocks0
    /\ storeLog = <<>>
    /\ resp[1].emitted = <<>> /\ out.received = <<>>
    /\ pc["run"] # "emit" /\ pc["pipe"] = "idle" /\ pc["rgo"] = "idle"
    /\ pc["run"] = "done" => resp[1].err # NoErr /\ resp[1].setErrors = 1

\* a block rm whose first identifier is well formed and stored and whose
\* second is malformed has run to its end, the first block still stored
C11_Witness ==
  /\ req.cmd = "rm" /\ req.nodeOk /\ Len(req.args) = 2
  /\ req.args[1] # Malformed /\ req.args[2] = Malformed
  /\ \E b \in blocks : CidString(b.cid) = req.args[1]
  /\ resp[1].err = "invalid content id"
  /\ Settled

\* C12 (empty key): block stat and block get with a zero-length identifier
\* fail with the zero-length input error, whatever the node's state, emit
\* nothing and never ask the store.
C12_EmptyKey ==
  (req.cmd \in {"stat", "get"} /\ req.args[1] = EmptyKey /\ pc["run"] # "start") =>
    /\ pc["run"] = "done"
    /\ resp[1].err = "zero length cid invalid"
    /\ resp[1].emitted = <<>>
    /\ storeLog = <<>>

\* a block get with the empty key and no node available has run to its end
C12_Witness ==
  /\ req.cmd = "get" /\ req.args[1] = EmptyKey /\ ~req.nodeOk
  /\ pc["run"] = "done" /\ Settled
  /\ resp[1].err = "zero length cid invalid"

\* the identifier strings block put has produced: the Key of the BlockStat
\* it is emitting or has emitted
PutKeys ==
  IF req.cmd # "put" THEN {}
  ELSE {resp[1].emitted[i].Key : i \in 1..Len(resp[1].emitted)}
       \cup (IF pc["run"] = "emit" THEN {val["run"].Key} ELSE {})

\* C13 (version invariant): every identifier block put produces for format
\* v0 has codec dag-protobuf and hash function sha2-256, whatever mhtype
\* and mhlen the request carries.
C13_VersionInvariant ==
  (req.cmd = "put" /\ req.format = "v0") =>
    \A k \in PutKeys : k[1] = "v0" /\ k[2] = "dag-pb" /\ k[3] = "sha2-256"

\* block rm's text post-processing has built its response pair
RmTextPostRun == req.cmd = "rm" /\ req.enc = "Text" /\ resp[2].created

\* the identifiers of the records of s that carry an error (e = TRUE) or
\* none (e = FALSE), in the order of s
RECURSIVE HashesOf(_, _)
HashesOf(s, e) ==
  IF s = <<>> THEN <<>>
  ELSE IF (Head(s).Error # NoErr) = e
  THEN <<Head(s).Hash>> \o HashesOf(Tail(s), e)
  ELSE HashesOf(Tail(s), e)

\* C15 as stated (line rendering drains the whole stream): what is rendered
\* is a prefix of what the handler emitted, and the drain ends only at the
\* end of the stream; neither an Error record nor an error of next() ends
\* it earlier.
C15_DrainsToEndOfStream ==
  RmTextPostRun =>
    /\ IsPrefix(text.rendered, resp[1].emitted)
    /\ text.closed => resp[1].closed

\* C15 amended: in text mode every record the handler emitted is rendered,
\* in delivery order, an Item as one line on the primary output and an
\* Error as one line on the diagnostic output; an Error record does not end
\* the drain, which ends when next() returns end-of-stream or another error.
C15_LineRendering ==
  RmTextPostRun =>
    /\ IsPrefix(text.rendered, resp[1].emitted)
    /\ text.sout = HashesOf(text.rendered, FALSE)
    /\ text.serr = HashesOf(text.rendered, TRUE)
    /\ text.closed => resp[1].closed \/ resp[1].broken
    /\ SettledIO => text.rendered = resp[1].emitted
    /\ (SettledIO /\ ~resp[1].broken) => text.rendered = rm.sent /\ Len(rm.sent) = Len(rm.cids)

\* an Error record has been rendered and an Item after it, and the drain
\* has then been ended by an error of next()
C15_Witness ==
  /\ RmTextPostRun /\ Len(text.rendered) = 2
  /\ text.rendered[1].Error # NoErr /\ text.rendered[2].Error = NoErr
  /\ text.serr = <<text.rendered[1].Hash>> /\ text.sout = <<text.rendered[2].Hash>>
  /\ text.closed /\ resp[1].broken

\* cat's post-processing is in its Emit on the new pair with a payload
\* made from a failed res.Next(): the wrapped reader is missing
EmitsMissingReader ==
  /\ req.cmd = "cat" /\ resp[2].created
  /\ pc["caller"] = "emit" /\ val["caller"].nil

\* C16 (payload read failure is surfaced): when pulling the payload record
\* fails in cat's progress-annotated post-processing, the error is set on
\* the returned response and no payload wrapping the missing reader is
\* emitted.
C16_ReadFailureSurfaced ==
  /\ ~EmitsMissingReader
  /\ (req.cmd = "cat" /\ resp[2].created /\ resp[1].broken /\ resp[1].emitted = <<>>
        /\ pc["caller"] # "next")
       => resp[2].err # NoErr

\* C17 (progress starts first): whenever cat's post-processing holds,
\* emits or has emitted a payload wrapped with the progress indicator, the
\* indicator is started and sized to the declared total length of the
\* handler's response; it is never started on the pass-through path.
C17_ProgressStartsFirst ==
  req.cmd = "cat" =>
    /\ ((pc["caller"] = "emit" /\ val["caller"].bar) \/ resp[2].emitted # <<>>)
         => bar.started /\ bar.total = resp[1].length
    /\ bar.started => resp[2].created /\ ~BelowProgressMin(bar.total)

\* the wrapped payload of an 8 MiB cat is being emitted, the bar started
C17_Witness ==
  /\ req.cmd = "cat" /\ pc["caller"] = "emit"
  /\ val["caller"].bar /\ ~val["caller"].nil
  /\ bar.started /\ bar.total = progressBarMinSize

\* C18 (no deadlock in cat's progress path): once nothing can move any
\* more, cat's post-processing is not in its Emit on the new response pair,
\* whose only consumer is the caller waiting for post-processing to return.
C18_NoDeadlock ==
  (req.cmd = "cat" /\ resp[2].created /\ Settled) => pc["caller"] # "emit"

\* C19 (the forwarding goroutine drains the removal channel): the
\* goroutine leaves its loop only when the channel is closed, also after
\* an Emit has returned an error, and once nothing can move any more the
\* pipeline has sent one outcome per identifier, closed the channel and
\* ended: it is not left in a send.
C19_ForwarderDrains ==
  RmStarted =>
    /\ pc["rgo"] = "done" => rm.closed
    /\ pc["pipe"] = "send" => pc["rgo"] \in {"recv", "emit"}
    /\ SettledIO =>
         /\ pc["pipe"] = "done" /\ pc["rgo"] = "done"
         /\ Len(rm.sent) = Len(rm.cids)

\* the Emit of the first of two outcomes returned an error, the second was
\* received all the same and the pipeline has ended
C19_Witness ==
  /\ RmStarted /\ SettledIO /\ Len(rm.cids) = 2
  /\ resp[1].setErrors = 2 /\ resp[1].emitted = <<>>
  /\ Len(rm.sent) = 2 /\ pc["pipe"] = "done" /\ pc["rgo"] = "done"

\* C20 as stated (the error is set at most once): on the response pair
\* block rm's text post-processing builds, SetError is called at most once,
\* by the goroutine or by the post-processing function, never by both.
C20_SetErrorAtMostOnce ==
  RmTextPostRun => resp[2].setErrors <= 1

\* C20 amended: SetError is called on the new pair at most twice and never
\* by both at a time: by the goroutine only for an error of next(), before
\* the renderer's channel is closed, and by the post-processing function
\* only after the renderer has returned, when an Error record was rendered;
\* the later call replaces the error of the earlier one.
C20_SetErrorInTurn ==
  RmTextPostRun =>
    /\ resp[2].setErrors <= 2
    /\ resp[2].setErrors >= 1 => resp[1].broken /\ text.closed /\ pc["pgo"] = "done"
    /\ pc["caller"] = "proc" =>
         /\ resp[2].setErrors = (IF text.closed /\ ~resp[1].closed THEN 1 ELSE 0)
         /\ resp[2].setErrors = 1 => resp[2].err = "next failed"
    /\ pc["caller"] # "proc" =>
         /\ text.closed
         /\ resp[2].setErrors = (IF text.someFailed THEN 2 ELSE 1)
         /\ resp[2].err = (IF text.someFailed THEN "some blocks not removed"
                                              ELSE "next failed")

\* both have set the error: next() failed after an Error record had been
\* rendered, and the post-processing function has returned
C20_Witness ==
  /\ RmTextPostRun /\ resp[2].setErrors = 2
  /\ text.someFailed /\ resp[1].broken
  /\ resp[2].err = "some blocks not removed"
  /\ pc["caller"] # "proc"

====
